---- MODULE Spec2Model ----
(***************************************************************************)
(* The RaftClient actor of raftor (src/raft/client.rs): the node-local     *)
(* front-end that bootstraps the local consensus engine and routes client  *)
(* requests and membership changes to the local engine or to the leader.   *)
(*                                                                         *)
(* The actor handles one mailbox message at a time; every future a handler *)
(* spawns is a task that advances one step per reply it awaits (the leader *)
(* query, the node lookup, the engine's or the remote node's reply, the    *)
(* two bootstrap delays).  The replies of the Network actor, of the engine *)
(* and of remote nodes are inputs chosen by the environment.               *)
(***************************************************************************)
EXTENDS Integers, Sequences, FiniteSets, TLC

\* ---------------------------------------------------------------- bounds
\* Futures spawned by the handlers (one per ClientRequest attempt, config
\* change or bootstrap); caps the otherwise unbounded retry loop.
MaxTasks == 2
\* Messages the external collaborators send to the actor.
MaxExt == 2

\* ------------------------------------------------------------ environment
\* RaftClient.id of the node under study.
Self == 1
\* NodeIds a leader query can return or a membership message can carry.
Nodes == {1, 2, 3}
\* NodeIds the Network resolves to a remote target (GetNodeById finds them).
Known == {1, 2}
\* The InitRaft messages the bootstrap collaborator may send:
\* <<nodes, net handle, join_mode>>.
InitChoices == {<< <<1>>, 1, FALSE >>, << <<1, 2>>, 1, FALSE >>, << <<1, 2>>, 2, TRUE >>}
\* The ChangeRaftClusterConfig messages a collaborator may send: <<add, remove>>.
ConfigChoices == {<< <<2, 3>>, <<>> >>, << <<3>>, <<2>> >>}

NoCmd == [op |-> "None", id |-> 0]
\* An opaque application mutation, next to the two membership commands.
AppCmd == [op |-> "App", id |-> 0]

add_node(id) == [op |-> "Add", id |-> id]

remove_node(id) == [op |-> "Remove", id |-> id]

\* Payload::new(entry, ResponseMode::Applied)
Payload(cmd) == [entry |-> cmd, response_mode |-> "Applied"]

\* ---------------------------------------------------------------- messages
Msg(type, nodes, join, nh, id, add, rem, cmd, rid, att) ==
    [type |-> type, nodes |-> nodes, join |-> join, net |-> nh, id |-> id,
     add |-> add, rem |-> rem, cmd |-> cmd, rid |-> rid, att |-> att]

InitRaft(nodes, nh, join) == Msg("InitRaft", nodes, join, nh, 0, <<>>, <<>>, NoCmd, 0, 0)

AddNode(id) == Msg("AddNode", <<>>, FALSE, 0, id, <<>>, <<>>, NoCmd, 0, 0)

RemoveNode(id) == Msg("RemoveNode", <<>>, FALSE, 0, id, <<>>, <<>>, NoCmd, 0, 0)

\* rid and att do not exist in the code: rid names the request a message
\* belongs to (0: none) and att counts the deliveries of a ClientRequest.
ChangeRaftClusterConfig(add, rem, rid) ==
    Msg("ChangeRaftClusterConfig", <<>>, FALSE, 0, 0, add, rem, NoCmd, rid, 0)

ClientRequest(cmd, rid, att) ==
    Msg("ClientRequest", <<>>, FALSE, 0, 0, <<>>, <<>>, cmd, rid, att)

\* What a task has sent or enqueued, in order.
Ev(ev, to, cmd, add, rem) == [ev |-> ev, to |-> to, cmd |-> cmd, add |-> add, rem |-> rem]

Range(s) == {s[i] : i \in 1..Len(s)}

Count(s, P(_)) == Cardinality({i \in 1..Len(s) : P(s[i])})

\* ---------------------------------------------------------------- state
VARIABLES
    raft,       \* RaftClient.raft: 0 is None, k is the k-th engine built
    net,        \* RaftClient.net: 0 is None, else the Network handle
    registry,   \* the shared HandlerRegistry: <<message type, handler, instance>>
    engines,    \* the engines built so far, engines[k] the k-th
    mailbox,    \* messages sent or notified to the actor, not yet handled
    tasks,      \* the futures spawned so far, in spawn order
    crashed,    \* a handler or future panicked
    next_rid,   \* next request name
    ext         \* messages sent by the external collaborators

vars == <<raft, net, registry, engines, mailbox, tasks, crashed, next_rid, ext>>


\* ------------------------------------------------------ consensus engine
\* The engine (MemRaft, built by RaftBuilder) is a collaborator outside
\* src/; what it does with a message is taken from its interface.
RaftBuilder(id, nodes, nh) ==
    [id |-> id, members |-> Range(nodes), net |-> nh, log |-> <<>>]

\* initialize_with_configuration(members), when it succeeds
EngineInit(e, nodes) == [e EXCEPT !.members = Range(nodes)]

\* propose(entry, response_mode), when it succeeds: the entry is applied
EnginePropose(e, payload) == [e EXCEPT !.log = Append(@, payload.entry)]

\* propose_config_change(add, remove), when it succeeds
EngineConfigChange(e, add, rem) ==
    [e EXCEPT !.members = (@ \cup Range(add)) \ Range(rem)]

\* Replies of the collaborators.
\* GetCurrentLeader answers a NodeId; 0 stands for an Err answer or a
\* MailboxError, which the future turns into a panic.
LeaderReplies == Nodes \cup {0}
\* GetNodeById is answered (with Some target for a node in Known, with None
\* otherwise), or its delivery fails.
NodeReplies == {"Answer", "MailboxError"}
ClientErrors == {"Internal", "Application", "ForwardToLeader"}
EngineReplies == {"Ok"} \cup ClientErrors \cup {"MailboxError"}
RemoteReplies == {"Ok"} \cup ClientErrors \cup {"MailboxError"}
AdminReplies == {"Ok", "Err", "MailboxError"}
ForwardReplies == {"Ok", "MailboxError"}

\* ---------------------------------------------------------------- tasks
\* A spawned future: the message its handler was given (msg), the member
\* list its closure captured (nodes), where it waits (pc), the leader it was
\* told, the engine it wrote to, the reply it got, and what it has sent.
Task(kind, msg, nodes, pc, trace) ==
    [kind |-> kind, msg |-> msg, nodes |-> nodes, pc |-> pc, leader |-> 0,
     eng |-> 0, res |-> "None", trace |-> trace]

Emit(t, e) == [t EXCEPT !.trace = Append(@, e)]

Init ==
    /\ raft = 0
    /\ net = 0
    /\ registry = {}
    /\ engines = <<>>
    /\ mailbox = <<>>
    /\ tasks = <<>>
    /\ crashed = FALSE
    /\ next_rid = 1
    /\ ext = 0

\* ------------------------------------------------- external collaborators
ExtMsgs ==
    {InitRaft(c[1], c[2], c[3]) : c \in InitChoices}
    \cup {AddNode(2), RemoveNode(2)}
    \cup {ChangeRaftClusterConfig(c[1], c[2], 0) : c \in ConfigChoices}
    \cup {ClientRequest(AppCmd, 0, 1)}

\* A collaborator sends a message to the actor's address.
Send(m) ==
    /\ ~crashed
    /\ ext < MaxExt
    /\ ext' = ext + 1
    /\ IF m.type = "ClientRequest"
       THEN /\ mailbox' = Append(mailbox, [m EXCEPT !.rid = next_rid])
            /\ next_rid' = next_rid + 1
       ELSE /\ mailbox' = Append(mailbox, m)
            /\ next_rid' = next_rid
    /\ UNCHANGED <<raft, net, registry, engines, tasks, crashed>>

Handling(type) == ~crashed /\ mailbox # <<>> /\ Head(mailbox).type = type

\* ---------------------------------------------------------------- InitRaft
\* Variants of the choice of the initial membership: always the singleton,
\* and always the supplied list.
EffectiveNodes_Singleton(msg) == <<Self>>

EffectiveNodes_Supplied(msg) == msg.nodes

EffectiveNodes(msg) == IF msg.join THEN <<Self>> ELSE msg.nodes

register_handlers(reg, k) ==
    LET new == {<<"AppendEntriesRequest", "raft", k>>,
                <<"VoteRequest", "raft", k>>,
                <<"InstallSnapshotRequest", "raft", k>>,
                <<"ChangeRaftClusterConfig", "client", Self>>,
                <<"ClientPayload", "raft", k>>}
    IN {r \in reg : \A n \in new : n[1] # r[1]} \cup new

\* Variant of HandleInitRaft: the handler returns once the dispatcher is
\* stored, before the engine is built.
HandleInitRaft_NetOnly ==
    /\ Handling("InitRaft")
    /\ net' = Head(mailbox).net
    /\ mailbox' = Tail(mailbox)
    /\ UNCHANGED <<raft, registry, engines, tasks, crashed, next_rid, ext>>

HandleInitRaft ==
    /\ Handling("InitRaft")
    /\ LET msg == Head(mailbox)
           nodes == EffectiveNodes(msg)
           k == Len(engines) + 1
       IN /\ msg.join \/ Len(tasks) < MaxTasks
          /\ net' = msg.net
          /\ engines' = Append(engines, RaftBuilder(Self, nodes, msg.net))
          /\ registry' = register_handlers(registry, k)
          /\ raft' = k
          /\ tasks' = IF msg.join
                      THEN tasks
                      ELSE Append(tasks, Task("InitRaft", msg, nodes, "delay1", <<>>))
          /\ mailbox' = Tail(mailbox)
    /\ UNCHANGED <<crashed, next_rid, ext>>

\* The first Delay fires (ok) or the timer fails.
InitDelay1(t, ok) ==
    /\ ~crashed
    /\ tasks[t].kind = "InitRaft" /\ tasks[t].pc = "delay1"
    /\ tasks' = [tasks EXCEPT ![t] =
          IF ok
          THEN Emit([@ EXCEPT !.pc = "init", !.eng = raft],
                    Ev("InitWithConfig", raft, NoCmd, tasks[t].nodes, <<>>))
          ELSE [@ EXCEPT !.pc = "done", !.res = "TimerError"]]
    /\ UNCHANGED <<raft, net, registry, engines, mailbox, crashed, next_rid, ext>>

\* The engine answers InitWithConfig; its inner result is not looked at.
InitWithConfigReply(t, r) ==
    /\ ~crashed
    /\ tasks[t].kind = "InitRaft" /\ tasks[t].pc = "init"
    /\ IF r = "MailboxError"
       THEN /\ crashed' = TRUE
            /\ tasks' = [tasks EXCEPT ![t].pc = "panic", ![t].res = r]
            /\ UNCHANGED engines
       ELSE /\ crashed' = crashed
            /\ tasks' = [tasks EXCEPT ![t].pc = "delay2", ![t].res = r]
            /\ engines' = IF r = "Ok"
                          THEN [engines EXCEPT ![tasks[t].eng] = EngineInit(@, tasks[t].nodes)]
                          ELSE engines
    /\ UNCHANGED <<raft, net, registry, mailbox, next_rid, ext>>

\* The second Delay fires (ok) or the timer fails.
InitDelay2(t, ok) ==
    /\ ~crashed
    /\ tasks[t].kind = "InitRaft" /\ tasks[t].pc = "delay2"
    /\ IF ok
       THEN LET m == ClientRequest(add_node(Self), next_rid, 1)
            IN /\ mailbox' = Append(mailbox, m)
               /\ next_rid' = next_rid + 1
               /\ tasks' = [tasks EXCEPT ![t] =
                     Emit([@ EXCEPT !.pc = "done"],
                          Ev("Notify:ClientRequest", Self, m.cmd, <<>>, <<>>))]
       ELSE /\ tasks' = [tasks EXCEPT ![t].pc = "done", ![t].res = "TimerError"]
            /\ UNCHANGED <<mailbox, next_rid>>
    /\ UNCHANGED <<raft, net, registry, engines, crashed, ext>>

\* ------------------------------------------------- AddNode and RemoveNode
HandleAddNode ==
    /\ Handling("AddNode")
    /\ LET msg == Head(mailbox)
       IN mailbox' = Append(Tail(mailbox), ClientRequest(add_node(msg.id), next_rid, 1))
    /\ next_rid' = next_rid + 1
    /\ UNCHANGED <<raft, net, registry, engines, tasks, crashed, ext>>

\* Variant of RemoveNode: the two notifications swapped.
RemoveNodeNotifies_Swapped(id, rid) ==
    <<ChangeRaftClusterConfig(<<>>, <<id>>, rid), ClientRequest(remove_node(id), rid, 1)>>

\* What RemoveNode notifies, in the order of the two ctx.notify calls.
RemoveNodeNotifies(id, rid) ==
    <<ClientRequest(remove_node(id), rid, 1), ChangeRaftClusterConfig(<<>>, <<id>>, rid)>>

HandleRemoveNode ==
    /\ Handling("RemoveNode")
    /\ LET msg == Head(mailbox)
       IN mailbox' = Tail(mailbox) \o RemoveNodeNotifies(msg.id, next_rid)
    /\ next_rid' = next_rid + 1
    /\ UNCHANGED <<raft, net, registry, engines, tasks, crashed, ext>>

\* ------------------------------------------------------------ ClientRequest
\* Variant of HandleClientRequest: a request is taken up only when no
\* earlier future is still waiting.
HandleClientRequest_Serial ==
    /\ Handling("ClientRequest")
    /\ LET msg == Head(mailbox)
       IN IF net = 0
          THEN /\ crashed' = TRUE
               /\ mailbox' = Tail(mailbox)
               /\ UNCHANGED tasks
          ELSE /\ Len(tasks) < MaxTasks
               /\ \A u \in 1..Len(tasks) : tasks[u].pc \in {"done", "panic"}
               /\ tasks' = Append(tasks,
                     Task("ClientRequest", msg, <<>>, "leader", <<Ev("GetCurrentLeader", net, NoCmd, <<>>, <<>>)>>))
               /\ mailbox' = Tail(mailbox)
               /\ UNCHANGED crashed
    /\ UNCHANGED <<raft, net, registry, engines, next_rid, ext>>

\* The handler unwraps self.net (a panic before InitRaft), then spawns the
\* future, which first sends GetCurrentLeader.
HandleClientRequest ==
    /\ Handling("ClientRequest")
    /\ LET msg == Head(mailbox)
       IN IF net = 0
          THEN /\ crashed' = TRUE
               /\ mailbox' = Tail(mailbox)
               /\ UNCHANGED tasks
          ELSE /\ Len(tasks) < MaxTasks
               /\ tasks' = Append(tasks,
                     Task("ClientRequest", msg, <<>>, "leader", <<Ev("GetCurrentLeader", net, NoCmd, <<>>, <<>>)>>))
               /\ mailbox' = Tail(mailbox)
               /\ UNCHANGED crashed
    /\ UNCHANGED <<raft, net, registry, engines, next_rid, ext>>

\* Variants of the routing test: the comparison with the local id lost,
\* and the local branch never taken.
ClientIsLocal_AnyLeader(leader) == raft # 0

ClientIsLocal_Never(leader) == FALSE

\* if leader == act.id { if let Some(ref raft) = act.raft { .. } }
ClientIsLocal(leader) == leader = Self /\ raft # 0

\* Variant of ClientRequestLeader: a retry routes by the leader its previous
\* attempt was told, whatever its own query returned.
ClientRequestLeader_Stale(t, l) ==
    LET prev == {u \in 1..Len(tasks) :
                    /\ tasks[u].kind = "ClientRequest"
                    /\ tasks[u].msg.rid = tasks[t].msg.rid
                    /\ tasks[u].msg.att + 1 = tasks[t].msg.att
                    /\ tasks[u].leader # 0}
        used == IF prev = {} THEN l ELSE tasks[CHOOSE u \in prev : TRUE].leader
    IN /\ ~crashed
       /\ tasks[t].kind = "ClientRequest" /\ tasks[t].pc = "leader"
       /\ IF l \notin Nodes
          THEN /\ crashed' = TRUE
               /\ tasks' = [tasks EXCEPT ![t].pc = "panic", ![t].res = "NoLeader"]
          ELSE /\ crashed' = crashed
               /\ tasks' = [tasks EXCEPT ![t] =
                     IF ClientIsLocal(used)
                     THEN Emit([@ EXCEPT !.pc = "engine", !.leader = l, !.eng = raft],
                               Ev("Propose", raft, Payload(tasks[t].msg.cmd).entry, <<>>, <<>>))
                     ELSE Emit([@ EXCEPT !.pc = "node", !.leader = l],
                               Ev("GetNodeById", used, NoCmd, <<>>, <<>>))]
       /\ UNCHANGED <<raft, net, registry, engines, mailbox, next_rid, ext>>

\* The Network answers GetCurrentLeader with l.
ClientRequestLeader(t, l) ==
    /\ ~crashed
    /\ tasks[t].kind = "ClientRequest" /\ tasks[t].pc = "leader"
    /\ IF l \notin Nodes
       THEN /\ crashed' = TRUE
            /\ tasks' = [tasks EXCEPT ![t].pc = "panic", ![t].res = "NoLeader"]
       ELSE /\ crashed' = crashed
            /\ tasks' = [tasks EXCEPT ![t] =
                  IF ClientIsLocal(l)
                  THEN Emit([@ EXCEPT !.pc = "engine", !.leader = l, !.eng = raft],
                            Ev("Propose", raft, Payload(tasks[t].msg.cmd).entry, <<>>, <<>>))
                  ELSE Emit([@ EXCEPT !.pc = "node", !.leader = l],
                            Ev("GetNodeById", l, NoCmd, <<>>, <<>>))]
    /\ UNCHANGED <<raft, net, registry, engines, mailbox, next_rid, ext>>

\* Variant of ClientRequestNode: an unresolved leader is printed and the
\* future ends, as a delivery failure does.
ClientRequestNode_LogOnly(t, r) ==
    /\ ~crashed
    /\ tasks[t].kind = "ClientRequest" /\ tasks[t].pc = "node"
    /\ tasks' = [tasks EXCEPT ![t] =
          IF r = "MailboxError" \/ tasks[t].leader \notin Known
          THEN [@ EXCEPT !.pc = "done",
                         !.res = IF r = "MailboxError" THEN r ELSE "NotFound"]
          ELSE Emit([@ EXCEPT !.pc = "remote"],
                    Ev("SendRemoteMessage", tasks[t].leader,
                       Payload(tasks[t].msg.cmd).entry, <<>>, <<>>))]
    /\ UNCHANGED <<raft, net, registry, engines, mailbox, crashed, next_rid, ext>>

\* The Network answers GetNodeById(leader) with r: a MailboxError panics in
\* map_err, an answer without a target panics in node.unwrap().
ClientRequestNode(t, r) ==
    /\ ~crashed
    /\ tasks[t].kind = "ClientRequest" /\ tasks[t].pc = "node"
    /\ IF r = "MailboxError" \/ tasks[t].leader \notin Known
       THEN /\ crashed' = TRUE
            /\ tasks' = [tasks EXCEPT ![t].pc = "panic",
                                      ![t].res = IF r = "MailboxError" THEN r ELSE "NotFound"]
       ELSE /\ crashed' = crashed
            /\ tasks' = [tasks EXCEPT ![t] =
                  Emit([@ EXCEPT !.pc = "remote"],
                       Ev("SendRemoteMessage", tasks[t].leader,
                          Payload(tasks[t].msg.cmd).entry, <<>>, <<>>))]
    /\ UNCHANGED <<raft, net, registry, engines, mailbox, next_rid, ext>>

\* Variants of handle_client_response: ForwardToLeader not resent, and an
\* application error resent.
handle_client_response_NoForward(res, msg) ==
    IF res = "Internal" THEN <<msg>> ELSE <<>>

handle_client_response_RetryApp(res, msg) ==
    IF res = "Ok" THEN <<>> ELSE <<msg>>

\* Variant of handle_client_response: a recoverable error notified twice.
handle_client_response_Twice(res, msg) ==
    IF res \in {"Internal", "ForwardToLeader"} THEN <<msg, msg>> ELSE <<>>

\* What handle_client_response notifies for the response res to msg.
handle_client_response(res, msg) ==
    CASE res = "Ok" -> <<>>
      [] res = "Internal" -> <<msg>>
      [] res = "Application" -> <<>>
      [] res = "ForwardToLeader" -> <<msg>>

\* ctx.notify(msg) delivers the same ClientRequest once more.
Resent(msg) == [msg EXCEPT !.att = @ + 1]

\* Variant of RemoteOutcome: a delivery failure resent like an engine error.
RemoteOutcome_Retry(res, msg) == IF res = "Ok" THEN <<>> ELSE <<msg>>

\* What follows the answer res to a forwarded proposal: a delivery failure
\* is printed and the chain ends; any other answer goes to
\* handle_client_response.
RemoteOutcome(res, msg) ==
    IF res = "MailboxError" THEN <<>> ELSE handle_client_response(res, msg)

Respond(t, res, out) ==
    /\ mailbox' = mailbox \o out
    /\ tasks' = [tasks EXCEPT ![t] =
          [@ EXCEPT !.pc = "done", !.res = res,
                    !.trace = @ \o [i \in 1..Len(out) |->
                        Ev("Notify:ClientRequest", Self, out[i].cmd, <<>>, <<>>)]]]

\* Variant of ClientRequestEngineReply: an accepted Add(id) also enters the
\* membership set, as if the request had been proposed as a config change.
ClientRequestEngineReply_Reconfigure(t, r) ==
    /\ ~crashed
    /\ tasks[t].kind = "ClientRequest" /\ tasks[t].pc = "engine"
    /\ IF r = "MailboxError"
       THEN /\ crashed' = TRUE
            /\ tasks' = [tasks EXCEPT ![t].pc = "panic", ![t].res = r]
            /\ UNCHANGED <<mailbox, engines>>
       ELSE /\ crashed' = crashed
            /\ Respond(t, r, handle_client_response(r, Resent(tasks[t].msg)))
            /\ engines' = IF r = "Ok"
                          THEN [engines EXCEPT ![tasks[t].eng] =
                                   IF tasks[t].msg.cmd.op = "Add"
                                   THEN EngineConfigChange(
                                            EnginePropose(@, Payload(tasks[t].msg.cmd)),
                                            <<tasks[t].msg.cmd.id>>, <<>>)
                                   ELSE EnginePropose(@, Payload(tasks[t].msg.cmd))]
                          ELSE engines
    /\ UNCHANGED <<raft, net, registry, next_rid, ext>>

\* The local engine answers the proposal with r.
ClientRequestEngineReply(t, r) ==
    /\ ~crashed
    /\ tasks[t].kind = "ClientRequest" /\ tasks[t].pc = "engine"
    /\ IF r = "MailboxError"
       THEN /\ crashed' = TRUE
            /\ tasks' = [tasks EXCEPT ![t].pc = "panic", ![t].res = r]
            /\ UNCHANGED <<mailbox, engines>>
       ELSE /\ crashed' = crashed
            /\ Respond(t, r, handle_client_response(r, Resent(tasks[t].msg)))
            /\ engines' = IF r = "Ok"
                          THEN [engines EXCEPT ![tasks[t].eng] =
                                   EnginePropose(@, Payload(tasks[t].msg.cmd))]
                          ELSE engines
    /\ UNCHANGED <<raft, net, registry, next_rid, ext>>

\* The remote node answers the forwarded proposal with r, or delivery fails.
ClientRequestRemoteReply(t, r) ==
    /\ ~crashed
    /\ tasks[t].kind = "ClientRequest" /\ tasks[t].pc = "remote"
    /\ Respond(t, r, RemoteOutcome(r, Resent(tasks[t].msg)))
    /\ UNCHANGED <<raft, net, registry, engines, crashed, next_rid, ext>>

\* -------------------------------------------------- ChangeRaftClusterConfig
HandleChangeRaftClusterConfig ==
    /\ Handling("ChangeRaftClusterConfig")
    /\ LET msg == Head(mailbox)
       IN IF net = 0
          THEN /\ crashed' = TRUE
               /\ mailbox' = Tail(mailbox)
               /\ UNCHANGED tasks
          ELSE /\ Len(tasks) < MaxTasks
               /\ tasks' = Append(tasks,
                     Task("ChangeRaftClusterConfig", msg, <<>>, "leader", <<Ev("GetCurrentLeader", net, NoCmd, <<>>, <<>>)>>))
               /\ mailbox' = Tail(mailbox)
               /\ UNCHANGED crashed
    /\ UNCHANGED <<raft, net, registry, engines, next_rid, ext>>

\* Variants of the routing test: the comparison with the local id lost,
\* and the local branch never taken.
ConfigIsLocal_AnyLeader(leader) == raft # 0

ConfigIsLocal_Never(leader) == FALSE

\* if leader == act.id { if let Some(ref raft) = act.raft { .. } }
ConfigIsLocal(leader) == leader = Self /\ raft # 0

\* The Network answers GetCurrentLeader with l.
ConfigLeader(t, l) ==
    /\ ~crashed
    /\ tasks[t].kind = "ChangeRaftClusterConfig" /\ tasks[t].pc = "leader"
    /\ IF l \notin Nodes
       THEN /\ crashed' = TRUE
            /\ tasks' = [tasks EXCEPT ![t].pc = "panic", ![t].res = "NoLeader"]
       ELSE /\ crashed' = crashed
            /\ tasks' = [tasks EXCEPT ![t] =
                  IF ConfigIsLocal(l)
                  THEN Emit([@ EXCEPT !.pc = "engine", !.leader = l, !.eng = raft],
                            Ev("ProposeConfigChange", raft, NoCmd,
                               tasks[t].msg.add, tasks[t].msg.rem))
                  ELSE Emit([@ EXCEPT !.pc = "node", !.leader = l],
                            Ev("GetNodeById", l, NoCmd, <<>>, <<>>))]
    /\ UNCHANGED <<raft, net, registry, engines, mailbox, next_rid, ext>>

\* Variant of ConfigNode: an unresolved leader is printed and the future
\* ends, as a delivery failure does.
ConfigNode_LogOnly(t, r) ==
    /\ ~crashed
    /\ tasks[t].kind = "ChangeRaftClusterConfig" /\ tasks[t].pc = "node"
    /\ tasks' = [tasks EXCEPT ![t] =
          IF r = "MailboxError" \/ tasks[t].leader \notin Known
          THEN [@ EXCEPT !.pc = "done",
                         !.res = IF r = "MailboxError" THEN r ELSE "NotFound"]
          ELSE Emit([@ EXCEPT !.pc = "remote"],
                    Ev("SendRemoteMessage", tasks[t].leader, NoCmd,
                       tasks[t].msg.add, tasks[t].msg.rem))]
    /\ UNCHANGED <<raft, net, registry, engines, mailbox, crashed, next_rid, ext>>

\* The Network answers GetNodeById(leader) with r: a MailboxError panics in
\* map_err, an answer without a target panics in node.unwrap().
ConfigNode(t, r) ==
    /\ ~crashed
    /\ tasks[t].kind = "ChangeRaftClusterConfig" /\ tasks[t].pc = "node"
    /\ IF r = "MailboxError" \/ tasks[t].leader \notin Known
       THEN /\ crashed' = TRUE
            /\ tasks' = [tasks EXCEPT ![t].pc = "panic",
                                      ![t].res = IF r = "MailboxError" THEN r ELSE "NotFound"]
       ELSE /\ crashed' = crashed
            /\ tasks' = [tasks EXCEPT ![t] =
                  Emit([@ EXCEPT !.pc = "remote"],
                       Ev("SendRemoteMessage", tasks[t].leader, NoCmd,
                          tasks[t].msg.add, tasks[t].msg.rem))]
    /\ UNCHANGED <<raft, net, registry, engines, mailbox, next_rid, ext>>

\* The AddNode messages notified once the engine has answered with res:
\* the closure takes _res and does not look at it.
ConfigNotifies(res, nodes_to_add) ==
    [i \in 1..Len(nodes_to_add) |-> AddNode(nodes_to_add[i])]

\* The local engine answers the config change with r.
ConfigEngineReply(t, r) ==
    /\ ~crashed
    /\ tasks[t].kind = "ChangeRaftClusterConfig" /\ tasks[t].pc = "engine"
    /\ IF r = "MailboxError"
       THEN /\ crashed' = TRUE
            /\ tasks' = [tasks EXCEPT ![t].pc = "panic", ![t].res = r]
            /\ UNCHANGED <<mailbox, engines>>
       ELSE LET out == ConfigNotifies(r, tasks[t].msg.add)
            IN /\ crashed' = crashed
               /\ mailbox' = mailbox \o out
               /\ tasks' = [tasks EXCEPT ![t] =
                     [@ EXCEPT !.pc = "done", !.res = r,
                               !.trace = @ \o [i \in 1..Len(out) |->
                                   Ev("Notify:AddNode", out[i].id, NoCmd, <<>>, <<>>)]]]
               /\ engines' = IF r = "Ok"
                             THEN [engines EXCEPT ![tasks[t].eng] =
                                      EngineConfigChange(@, tasks[t].msg.add, tasks[t].msg.rem)]
                             ELSE engines
    /\ UNCHANGED <<raft, net, registry, next_rid, ext>>

\* The remote node answers the forwarded config change, or delivery fails;
\* either way nothing follows.
ConfigRemoteReply(t, r) ==
    /\ ~crashed
    /\ tasks[t].kind = "ChangeRaftClusterConfig" /\ tasks[t].pc = "remote"
    /\ tasks' = [tasks EXCEPT ![t].pc = "done", ![t].res = r]
    /\ UNCHANGED <<raft, net, registry, engines, mailbox, crashed, next_rid, ext>>

\* ------------------------------------------------------------ specification
Next ==
    \/ \E m \in ExtMsgs : Send(m)
    \/ HandleInitRaft
    \/ HandleAddNode
    \/ HandleRemoveNode
    \/ HandleClientRequest
    \/ HandleChangeRaftClusterConfig
    \/ \E t \in 1..Len(tasks), ok \in BOOLEAN : InitDelay1(t, ok)
    \/ \E t \in 1..Len(tasks), r \in AdminReplies : InitWithConfigReply(t, r)
    \/ \E t \in 1..Len(tasks), ok \in BOOLEAN : InitDelay2(t, ok)
    \/ \E t \in 1..Len(tasks), l \in LeaderReplies : ClientRequestLeader(t, l)
    \/ \E t \in 1..Len(tasks), r \in NodeReplies : ClientRequestNode(t, r)
    \/ \E t \in 1..Len(tasks), r \in EngineReplies : ClientRequestEngineReply(t, r)
    \/ \E t \in 1..Len(tasks), r \in RemoteReplies : ClientRequestRemoteReply(t, r)
    \/ \E t \in 1..Len(tasks), l \in LeaderReplies : ConfigLeader(t, l)
    \/ \E t \in 1..Len(tasks), r \in NodeReplies : ConfigNode(t, r)
    \/ \E t \in 1..Len(tasks), r \in AdminReplies : ConfigEngineReply(t, r)
    \/ \E t \in 1..Len(tasks), r \in ForwardReplies : ConfigRemoteReply(t, r)

Spec == Init /\ [][Next]_vars

\* ------------------------------------------------------------ observations
Tasks == 1..Len(tasks)

\* How many events named e task k has emitted.
NEv(k, e) == Cardinality({i \in 1..Len(k.trace) : k.trace[i].ev = e})

IsCR(k) == k.kind = "ClientRequest"
IsCC(k) == k.kind = "ChangeRaftClusterConfig"
IsInit(k) == k.kind = "InitRaft"

Recoverable == {"Internal", "ForwardToLeader"}

\* A further delivery of the request of ClientRequest task k is queued or
\* has been handled.
HasRetry(k) ==
    \/ \E i \in 1..Len(mailbox) :
          /\ mailbox[i].type = "ClientRequest"
          /\ mailbox[i].rid = k.msg.rid /\ mailbox[i].att = k.msg.att + 1
    \/ \E u \in Tasks :
          /\ IsCR(tasks[u])
          /\ tasks[u].msg.rid = k.msg.rid /\ tasks[u].msg.att = k.msg.att + 1

\* Task k has handed its proposal to the engine or to a remote node.
Submitted(k) ==
    NEv(k, "Propose") + NEv(k, "ProposeConfigChange") + NEv(k, "SendRemoteMessage") > 0

\* ------------------------------------------------------------------ claims
\* C1: a ClientRequest attempt whose leader query returned the local NodeId
\* sends exactly one proposal, carrying its command, to the local engine,
\* and issues no GetNodeById and no SendRemoteMessage.
C1_LocalLeaderDirect ==
    \A t \in Tasks :
        IsCR(tasks[t]) /\ tasks[t].leader = Self =>
            /\ NEv(tasks[t], "Propose") = 1
            /\ NEv(tasks[t], "GetNodeById") = 0
            /\ NEv(tasks[t], "SendRemoteMessage") = 0
            /\ \A i \in 1..Len(tasks[t].trace) :
                  tasks[t].trace[i].ev = "Propose" =>
                      /\ tasks[t].trace[i].to = tasks[t].eng
                      /\ tasks[t].eng \in 1..Len(engines)
                      /\ tasks[t].trace[i].cmd = tasks[t].msg.cmd

C1_Witness ==
    \E t \in Tasks :
        /\ IsCR(tasks[t]) /\ tasks[t].leader = Self
        /\ tasks[t].pc = "done" /\ tasks[t].res = "Ok"

\* C2: a ClientRequest attempt whose leader query returned another NodeId
\* submits nothing to the local engine, looks the leader up once and, once
\* the leader is resolved, forwards exactly one proposal carrying its
\* command to that leader; an attempt after the first exists only when the
\* previous attempt of the same request ended in Internal or ForwardToLeader.
C2_ForwardOncePerAttempt ==
    /\ \A t \in Tasks :
          IsCR(tasks[t]) /\ tasks[t].leader \notin {0, Self} =>
              /\ NEv(tasks[t], "Propose") = 0
              /\ NEv(tasks[t], "GetNodeById") = 1
              /\ NEv(tasks[t], "SendRemoteMessage") =
                    (IF tasks[t].pc \in {"remote", "done"} THEN 1 ELSE 0)
              /\ \A i \in 1..Len(tasks[t].trace) :
                    tasks[t].trace[i].ev = "SendRemoteMessage" =>
                        /\ tasks[t].trace[i].to = tasks[t].leader
                        /\ tasks[t].leader \in Known
                        /\ tasks[t].trace[i].cmd = tasks[t].msg.cmd
    /\ \A t \in Tasks :
          IsCR(tasks[t]) /\ tasks[t].msg.att > 1 =>
              \E u \in 1..(t - 1) :
                  /\ IsCR(tasks[u])
                  /\ tasks[u].msg.rid = tasks[t].msg.rid
                  /\ tasks[u].msg.att = tasks[t].msg.att - 1
                  /\ tasks[u].pc = "done" /\ tasks[u].res \in Recoverable
    /\ \A i \in 1..Len(mailbox) :
          mailbox[i].type = "ClientRequest" /\ mailbox[i].att > 1 =>
              \E u \in Tasks :
                  /\ IsCR(tasks[u])
                  /\ tasks[u].msg.rid = mailbox[i].rid
                  /\ tasks[u].msg.att = mailbox[i].att - 1
                  /\ tasks[u].pc = "done" /\ tasks[u].res \in Recoverable

C2_Witness ==
    \E t, u \in Tasks :
        /\ IsCR(tasks[t]) /\ IsCR(tasks[u])
        /\ tasks[t].leader = 2 /\ tasks[t].pc = "done" /\ tasks[t].res = "ForwardToLeader"
        /\ tasks[u].msg.rid = tasks[t].msg.rid /\ tasks[u].msg.att = tasks[t].msg.att + 1
        /\ tasks[u].leader = 2 /\ tasks[u].pc = "done"
        /\ NEv(tasks[u], "SendRemoteMessage") = 1

\* C3, as stated: a client request ends only with a success response or a
\* fatal failure, so an attempt that is done and was not resent was
\* answered Ok.
C3_EndsOnlyInSuccess ==
    \A t \in Tasks :
        IsCR(tasks[t]) /\ tasks[t].pc = "done" /\ ~HasRetry(tasks[t]) =>
            tasks[t].res = "Ok"

\* C3, amended: every attempt starts from the leader query; an attempt
\* answered Internal or ForwardToLeader is followed by one more delivery of
\* the identical command, whatever the attempt's number; an attempt that is
\* done and not resent was answered Ok, Application or with a delivery
\* failure; an attempt that panicked met an unknown or unresolvable leader
\* or a closed engine mailbox.
C3_RetryUntilFinalAnswer ==
    \A t \in Tasks :
        IsCR(tasks[t]) =>
            /\ tasks[t].trace[1].ev = "GetCurrentLeader"
            /\ tasks[t].pc = "done" /\ tasks[t].res \in Recoverable =>
                  /\ HasRetry(tasks[t])
                  /\ \A i \in 1..Len(mailbox) :
                        mailbox[i].type = "ClientRequest"
                        /\ mailbox[i].rid = tasks[t].msg.rid =>
                            mailbox[i].cmd = tasks[t].msg.cmd
                  /\ \A u \in Tasks :
                        IsCR(tasks[u]) /\ tasks[u].msg.rid = tasks[t].msg.rid =>
                            tasks[u].msg.cmd = tasks[t].msg.cmd
            /\ tasks[t].pc = "done" /\ ~HasRetry(tasks[t]) =>
                  tasks[t].res \in {"Ok", "Application", "MailboxError"}
            /\ tasks[t].pc = "panic" =>
                  tasks[t].res \in {"NoLeader", "NotFound", "MailboxError"}

\* A request answered ForwardToLeader was delivered again and then answered Ok.
C3_Witness ==
    \E t, u \in Tasks :
        /\ IsCR(tasks[t]) /\ tasks[t].pc = "done" /\ tasks[t].res = "ForwardToLeader"
        /\ IsCR(tasks[u]) /\ tasks[u].msg.rid = tasks[t].msg.rid
        /\ tasks[u].msg.att = tasks[t].msg.att + 1 /\ tasks[u].msg.cmd = tasks[t].msg.cmd
        /\ tasks[u].pc = "done" /\ tasks[u].res = "Ok"

\* The step in which task t receives the answer res.
Answered(t, res) ==
    /\ tasks[t].pc \in {"engine", "remote"}
    /\ tasks'[t].pc = "done" /\ tasks'[t].res = res

\* C4: a ClientRequest attempt answered ClientError::Application is dropped:
\* the answer enqueues nothing, sends nothing and changes nothing of the
\* core or the engine, and no further delivery of the request ever exists.
C4_ApplicationErrorDropped ==
    /\ [][\A t \in Tasks :
            IsCR(tasks[t]) /\ Answered(t, "Application") =>
                /\ mailbox' = mailbox
                /\ tasks'[t].trace = tasks[t].trace
                /\ UNCHANGED <<raft, net, registry, engines, crashed, next_rid>>]_vars
    /\ [](\A t \in Tasks :
            IsCR(tasks[t]) /\ tasks[t].pc = "done" /\ tasks[t].res = "Application" =>
                /\ ~HasRetry(tasks[t])
                /\ NEv(tasks[t], "Notify:ClientRequest") = 0
                /\ NEv(tasks[t], "Propose") + NEv(tasks[t], "SendRemoteMessage") = 1)

C4_Witness ==
    \E t \in Tasks :
        /\ IsCR(tasks[t]) /\ tasks[t].msg.att = 2
        /\ tasks[t].pc = "done" /\ tasks[t].res = "Application"
        /\ mailbox = <<>> /\ ~crashed

\* C5: a delivery failure of a forwarded proposal or config change is only
\* logged: the failure enqueues nothing, sends nothing, does not stop the
\* process, and no further delivery of the request ever exists.
C5_DeliveryFailureLogged ==
    /\ [][\A t \in Tasks :
            tasks[t].pc = "remote" /\ Answered(t, "MailboxError") =>
                /\ mailbox' = mailbox
                /\ tasks'[t].trace = tasks[t].trace
                /\ ~crashed'
                /\ UNCHANGED <<raft, net, registry, engines, next_rid>>]_vars
    /\ [](\A t \in Tasks :
            /\ tasks[t].pc = "done" /\ tasks[t].res = "MailboxError"
            /\ NEv(tasks[t], "SendRemoteMessage") > 0
            => /\ NEv(tasks[t], "SendRemoteMessage") = 1
               /\ NEv(tasks[t], "Notify:ClientRequest") = 0
               /\ NEv(tasks[t], "Notify:AddNode") = 0
               /\ IsCR(tasks[t]) => ~HasRetry(tasks[t]))

\* Both kinds of forward have failed and the process is still running.
C5_Witness ==
    \E t, u \in Tasks :
        /\ IsCR(tasks[t]) /\ tasks[t].pc = "done" /\ tasks[t].res = "MailboxError"
        /\ IsCC(tasks[u]) /\ tasks[u].pc = "done" /\ tasks[u].res = "MailboxError"
        /\ ~crashed

\* How often id occurs in the list l.
Occurs(l, id) == Cardinality({i \in 1..Len(l) : l[i] = id})

\* How many AddNode(id) task k has notified.
Notified(k, id) ==
    Cardinality({i \in 1..Len(k.trace) :
                    k.trace[i].ev = "Notify:AddNode" /\ k.trace[i].to = id})

\* C6: a config change handled where the leader query returned the local
\* NodeId is proposed once to the local engine; AddNode is notified once per
\* entry of the add list when the engine answered Ok, and not at all when
\* the engine's answer was an error.
C6_AddNodeOnlyOnSuccess ==
    \A t \in Tasks :
        IsCC(tasks[t]) /\ tasks[t].leader = Self /\ tasks[t].pc = "done" =>
            /\ NEv(tasks[t], "ProposeConfigChange") = 1
            /\ tasks[t].res = "Ok" =>
                  \A id \in Nodes : Notified(tasks[t], id) = Occurs(tasks[t].msg.add, id)
            /\ tasks[t].res # "Ok" => NEv(tasks[t], "Notify:AddNode") = 0

\* C7: a config change whose leader query returned another NodeId proposes
\* nothing to the local engine, notifies no AddNode and, once the leader is
\* resolved, forwards exactly one message to it: the config change itself,
\* with the add and remove lists it was given, not a proposal.
C7_ConfigForwardedOnce ==
    \A t \in Tasks :
        IsCC(tasks[t]) /\ tasks[t].leader \notin {0, Self} =>
            /\ NEv(tasks[t], "ProposeConfigChange") = 0
            /\ NEv(tasks[t], "Propose") = 0
            /\ NEv(tasks[t], "Notify:AddNode") = 0
            /\ NEv(tasks[t], "SendRemoteMessage") =
                  (IF tasks[t].pc \in {"remote", "done"} THEN 1 ELSE 0)
            /\ \A i \in 1..Len(tasks[t].trace) :
                  tasks[t].trace[i].ev = "SendRemoteMessage" =>
                      /\ tasks[t].trace[i].to = tasks[t].leader
                      /\ tasks[t].leader \in Known
                      /\ tasks[t].trace[i].cmd = NoCmd
                      /\ tasks[t].trace[i].add = tasks[t].msg.add
                      /\ tasks[t].trace[i].rem = tasks[t].msg.rem

C7_Witness ==
    \E t \in Tasks :
        /\ IsCC(tasks[t]) /\ tasks[t].leader = 2
        /\ tasks[t].msg.add # <<>> /\ tasks[t].msg.rem # <<>>
        /\ tasks[t].pc = "done" /\ tasks[t].res = "Ok"

\* The ClientRequest(Remove) task of the RemoveNode that config change k
\* comes from.
RemoveRecord(k, u) ==
    /\ IsCR(tasks[u])
    /\ tasks[u].msg.rid = k.msg.rid /\ tasks[u].msg.att = 1
    /\ k.msg.rem = <<tasks[u].msg.cmd.id>>
    /\ tasks[u].msg.cmd.op = "Remove"

\* C8, as stated: whenever the config change of a RemoveNode(N) has been
\* submitted (to the engine or to the leader), the Remove(N) proposal of
\* that RemoveNode has been submitted too.
C8_RemoveProposedFirst ==
    \A t \in Tasks :
        IsCC(tasks[t]) /\ tasks[t].msg.rid # 0 /\ Submitted(tasks[t]) =>
            \E u \in Tasks : RemoveRecord(tasks[t], u) /\ Submitted(tasks[u])

\* C8, amended: the ClientRequest(Remove(N)) of a RemoveNode(N) is queued
\* ahead of its config change and handled (its leader query sent) before
\* the config change is handled.
C8_RemoveHandledFirst ==
    /\ \A t \in Tasks :
          IsCC(tasks[t]) /\ tasks[t].msg.rid # 0 =>
              \E u \in 1..(t - 1) :
                  /\ RemoveRecord(tasks[t], u)
                  /\ NEv(tasks[u], "GetCurrentLeader") = 1
    /\ \A i \in 1..Len(mailbox) :
          /\ ~crashed
          /\ mailbox[i].type = "ChangeRaftClusterConfig" /\ mailbox[i].rid # 0
          =>
              \/ \E u \in Tasks : RemoveRecord([msg |-> mailbox[i]], u)
              \/ \E j \in 1..(i - 1) :
                    /\ mailbox[j].type = "ClientRequest"
                    /\ mailbox[j].rid = mailbox[i].rid /\ mailbox[j].att = 1
                    /\ mailbox[j].cmd = remove_node(mailbox[i].rem[1])

C8_Witness ==
    \E t, u \in Tasks :
        /\ IsCC(tasks[t]) /\ tasks[t].msg.rid # 0 /\ tasks[t].pc = "done"
        /\ RemoveRecord(tasks[t], u) /\ tasks[u].pc = "done" /\ tasks[u].res = "Ok"

\* Only InitRaft(<<Self>>, join_mode = false) has been sent to the actor.
FoundingAlone ==
    /\ ext = 1 /\ Len(engines) = 1 /\ tasks # <<>>
    /\ IsInit(tasks[1]) /\ tasks[1].msg.nodes = <<Self>>

\* C9: a founding InitRaft sends InitWithConfig once, after the first delay,
\* with the member list it was given, to the engine; it notifies
\* ClientRequest(Add(local id)) once, after InitWithConfig was answered and
\* the second delay fired, and never before.  When InitRaft(<<Self>>) is
\* all the actor was sent, the engine's membership is {Self}, and once the
\* self add was answered Ok by the engine its log is the one entry Add(Self).
C9_FoundingBootstrap ==
    /\ \A t \in Tasks :
          IsInit(tasks[t]) =>
              LET k == tasks[t]
                  sent == Ev("InitWithConfig", k.eng, NoCmd, k.msg.nodes, <<>>)
                  added == Ev("Notify:ClientRequest", Self, add_node(Self), <<>>, <<>>)
              IN /\ k.pc = "delay1" => k.trace = <<>>
                 /\ k.pc \in {"init", "delay2", "panic"} =>
                       k.trace = <<sent>> /\ k.eng \in 1..Len(engines)
                 /\ k.pc = "done" =>
                       \/ k.res = "TimerError" /\ k.trace \in {<<>>, <<sent>>}
                       \/ k.res \in {"Ok", "Err"} /\ k.trace = <<sent, added>>
    /\ FoundingAlone =>
          /\ engines[1].members = {Self}
          /\ engines[1].log \in {<<>>, <<add_node(Self)>>}
          /\ engines[1].log = <<add_node(Self)>> <=>
                \E u \in Tasks :
                    /\ IsCR(tasks[u]) /\ tasks[u].leader = Self
                    /\ tasks[u].pc = "done" /\ tasks[u].res = "Ok"

C9_Witness ==
    /\ FoundingAlone
    /\ tasks[1].pc = "done" /\ tasks[1].res = "Ok"
    /\ engines[1].members = {Self}
    /\ engines[1].log = <<add_node(Self)>>

\* The registrations register_handlers makes for the k-th engine.
Registered(k) ==
    {<<"AppendEntriesRequest", "raft", k>>, <<"VoteRequest", "raft", k>>,
     <<"InstallSnapshotRequest", "raft", k>>, <<"ClientPayload", "raft", k>>,
     <<"ChangeRaftClusterConfig", "client", Self>>}

\* C10: handling an InitRaft with join_mode = true builds the engine with
\* the membership {Self} whatever list was supplied, registers the
\* handlers, spawns no bootstrap and notifies nothing; no bootstrap (the
\* only sender of InitWithConfig and of the self add) ever stems from it.
C10_JoinMode ==
    /\ [][raft' # raft /\ Head(mailbox).join =>
            /\ engines'[raft'].members = {Self}
            /\ engines'[raft'].id = Self
            /\ Registered(raft') \subseteq registry'
            /\ tasks' = tasks
            /\ mailbox' = Tail(mailbox)]_vars
    /\ [](\A t \in Tasks :
            /\ IsInit(tasks[t]) => ~tasks[t].msg.join
            /\ NEv(tasks[t], "InitWithConfig") > 0 => IsInit(tasks[t]))

C10_Witness ==
    /\ raft = 1 /\ engines[1].net = 2 /\ engines[1].members = {Self}
    /\ Registered(1) \subseteq registry
    /\ ext > 1 /\ mailbox = <<>>
    /\ \A t \in Tasks : tasks[t].pc = "done" /\ ~IsInit(tasks[t])

\* C11: the engine reference and the dispatcher reference are set at most
\* once: once raft (net) is Some, no step, a second InitRaft included,
\* replaces it.
C11_SetAtMostOnce ==
    [][/\ raft # 0 => raft' = raft
       /\ net # 0 => net' = net]_vars

\* C12: in the client request path, an attempt whose leader cannot be
\* resolved to a remote target (GetNodeById answers without a target, or
\* the lookup is not delivered) panics: the attempt has forwarded nothing,
\* has submitted nothing to the engine, and no retry of it is queued or
\* handled.
C12_UnresolvedLeaderPanics ==
    \A t \in Tasks :
        /\ (IsCR(tasks[t]) /\ tasks[t].leader \in Nodes \ Known) =>
              /\ tasks[t].pc \in {"node", "panic"}
              /\ NEv(tasks[t], "GetNodeById") = 1
        /\ (/\ IsCR(tasks[t])
            /\ NEv(tasks[t], "GetNodeById") = 1
            /\ \/ tasks[t].res = "NotFound"
               \/ /\ tasks[t].res = "MailboxError"
                  /\ NEv(tasks[t], "SendRemoteMessage") = 0) =>
              /\ tasks[t].pc = "panic" /\ crashed
              /\ NEv(tasks[t], "Propose") = 0
              /\ NEv(tasks[t], "SendRemoteMessage") = 0
              /\ NEv(tasks[t], "Notify:ClientRequest") = 0
              /\ ~HasRetry(tasks[t])

C12_Witness ==
    \E t \in Tasks :
        /\ IsCR(tasks[t]) /\ tasks[t].leader \in Nodes \ Known
        /\ tasks[t].pc = "panic" /\ tasks[t].res = "NotFound" /\ crashed

\* C13 as stated: in the config change path, a leader that cannot be
\* resolved to a target is logged only; the process does not terminate.
C13_ConfigDiscoveryLoggedOnly ==
    \A t \in Tasks :
        IsCC(tasks[t]) /\ tasks[t].res = "NotFound" =>
            ~crashed /\ tasks[t].pc = "done"

\* C13, amended: in the config change path, an attempt whose leader cannot
\* be resolved to a target (GetNodeById answers without a target, or the
\* lookup is not delivered) panics, as in the client request path, and has
\* forwarded and proposed nothing; the failure that is logged only is the
\* delivery failure of the forwarded config change, which comes after a
\* successful lookup and one forward.
C13_ConfigUnresolvedLeaderPanics ==
    \A t \in Tasks :
        /\ (IsCC(tasks[t]) /\ tasks[t].leader \in Nodes \ Known) =>
              /\ tasks[t].pc \in {"node", "panic"}
              /\ NEv(tasks[t], "GetNodeById") = 1
        /\ (/\ IsCC(tasks[t])
            /\ NEv(tasks[t], "GetNodeById") = 1
            /\ \/ tasks[t].res = "NotFound"
               \/ /\ tasks[t].res = "MailboxError"
                  /\ NEv(tasks[t], "SendRemoteMessage") = 0) =>
              /\ tasks[t].pc = "panic" /\ crashed
              /\ NEv(tasks[t], "ProposeConfigChange") = 0
              /\ NEv(tasks[t], "SendRemoteMessage") = 0
              /\ NEv(tasks[t], "Notify:AddNode") = 0
        /\ (IsCC(tasks[t]) /\ tasks[t].pc = "done" /\ tasks[t].res = "MailboxError") =>
              /\ tasks[t].leader \in Known
              /\ NEv(tasks[t], "SendRemoteMessage") = 1

C13_Witness ==
    \E t \in Tasks :
        /\ IsCC(tasks[t]) /\ tasks[t].leader \in Nodes \ Known
        /\ tasks[t].pc = "panic" /\ tasks[t].res = "NotFound" /\ crashed

\* Nothing is queued and no future is waiting.
Quiescent == mailbox = <<>> /\ \A t \in Tasks : tasks[t].pc \in {"done", "panic"}

C15_ClientRequestKeepsMembership ==
    /\ [](\A t \in Tasks :
            IsCR(tasks[t]) =>
                /\ NEv(tasks[t], "ProposeConfigChange") = 0
                /\ NEv(tasks[t], "InitWithConfig") = 0
                /\ NEv(tasks[t], "Notify:AddNode") = 0
                /\ \A i \in 1..Len(tasks[t].trace) :
                      /\ tasks[t].trace[i].add = <<>>
                      /\ tasks[t].trace[i].rem = <<>>
                      /\ tasks[t].trace[i].ev \in
                            {"Propose", "SendRemoteMessage", "Notify:ClientRequest"} =>
                                tasks[t].trace[i].cmd = tasks[t].msg.cmd)
    /\ [][/\ \A t \in Tasks :
                IsCR(tasks[t]) /\ tasks'[t] # tasks[t] =>
                    \A k \in 1..Len(engines) :
                        engines'[k].members = engines[k].members
          /\ Handling("ClientRequest") /\ mailbox' = Tail(mailbox) =>
                engines' = engines]_vars

C15_Witness ==
    \E t \in Tasks, u \in Tasks :
        /\ IsCR(tasks[t]) /\ IsCR(tasks[u])
        /\ tasks[t].msg.rid = tasks[u].msg.rid
        /\ tasks[t].msg.att = 1 /\ tasks[u].msg.att = 2
        /\ tasks[t].msg.cmd.op = "Add" /\ tasks[u].msg.cmd = tasks[t].msg.cmd
        /\ tasks[t].res \in Recoverable
        /\ tasks[u].pc = "done" /\ tasks[u].res = "Ok" /\ tasks[u].leader = Self
        /\ tasks[u].msg.cmd.id \notin engines[tasks[u].eng].members

\* C16: every attempt of a client request or of a config change, a retry
\* included, starts with exactly one GetCurrentLeader of its own to the
\* dispatcher and holds no leader value before that query is answered;
\* everything it sends afterwards is routed by the NodeId that this query
\* returned: a proposal to the local engine only when it is the local id,
\* the lookup and the forward to that very NodeId.
C16_FreshLeaderQuery ==
    /\ [](\A t \in Tasks :
            IsCR(tasks[t]) \/ IsCC(tasks[t]) =>
                /\ NEv(tasks[t], "GetCurrentLeader") = 1
                /\ tasks[t].trace[1].ev = "GetCurrentLeader"
                /\ tasks[t].trace[1].to # 0
                /\ tasks[t].pc = "leader" =>
                      tasks[t].leader = 0 /\ Len(tasks[t].trace) = 1
                /\ \A i \in 1..Len(tasks[t].trace) :
                      /\ tasks[t].trace[i].ev \in {"GetNodeById", "SendRemoteMessage"} =>
                            tasks[t].trace[i].to = tasks[t].leader
                      /\ tasks[t].trace[i].ev \in {"Propose", "ProposeConfigChange"} =>
                            tasks[t].leader = Self)
    /\ [][\A t \in Tasks :
            /\ IsCR(tasks[t]) \/ IsCC(tasks[t])
            /\ tasks[t].pc = "leader" /\ tasks'[t].pc \in {"engine", "node"}
            => /\ tasks'[t].leader \in Nodes
               /\ tasks'[t].pc = "engine" <=> (tasks'[t].leader = Self /\ raft # 0)]_vars

C16_Witness ==
    \E t \in Tasks, u \in Tasks :
        /\ IsCR(tasks[t]) /\ IsCR(tasks[u])
        /\ tasks[t].msg.rid = tasks[u].msg.rid
        /\ tasks[t].msg.att = 1 /\ tasks[u].msg.att = 2
        /\ tasks[t].leader = 2 /\ tasks[t].res = "ForwardToLeader"
        /\ tasks[u].leader = Self /\ tasks[u].pc = "done" /\ tasks[u].res = "Ok"

\* Task t is a request waiting for a reply.
InFlight(t) ==
    /\ IsCR(tasks[t]) \/ IsCC(tasks[t])
    /\ tasks[t].pc \in {"leader", "node", "engine", "remote"}

\* C17: while the process runs, requests advance independently of each
\* other: whatever other requests are waiting for a reply or have a retry
\* queued, the request at the head of the mailbox can be dispatched (its
\* handler spawns a future of its own without waiting), and every waiting
\* request can take each reply it waits for and so complete.
C17_RequestsIndependent ==
    ~crashed =>
        /\ (Handling("ClientRequest") /\ Len(tasks) < MaxTasks) =>
              ENABLED HandleClientRequest
        /\ (Handling("ChangeRaftClusterConfig") /\ Len(tasks) < MaxTasks) =>
              ENABLED HandleChangeRaftClusterConfig
        /\ \A t \in Tasks :
              /\ (IsCR(tasks[t]) /\ tasks[t].pc = "leader") =>
                    \A l \in LeaderReplies : ENABLED ClientRequestLeader(t, l)
              /\ (IsCR(tasks[t]) /\ tasks[t].pc = "node") =>
                    \A r \in NodeReplies : ENABLED ClientRequestNode(t, r)
              /\ (IsCR(tasks[t]) /\ tasks[t].pc = "engine") =>
                    \A r \in EngineReplies : ENABLED ClientRequestEngineReply(t, r)
              /\ (IsCR(tasks[t]) /\ tasks[t].pc = "remote") =>
                    \A r \in RemoteReplies : ENABLED ClientRequestRemoteReply(t, r)
              /\ (IsCC(tasks[t]) /\ tasks[t].pc = "leader") =>
                    \A l \in LeaderReplies : ENABLED ConfigLeader(t, l)
              /\ (IsCC(tasks[t]) /\ tasks[t].pc = "node") =>
                    \A r \in NodeReplies : ENABLED ConfigNode(t, r)
              /\ (IsCC(tasks[t]) /\ tasks[t].pc = "engine") =>
                    \A r \in AdminReplies : ENABLED ConfigEngineReply(t, r)
              /\ (IsCC(tasks[t]) /\ tasks[t].pc = "remote") =>
                    \A r \in ForwardReplies : ENABLED ConfigRemoteReply(t, r)

C17_Witness ==
    /\ Len(tasks) = 2 /\ ~crashed
    /\ IsCR(tasks[1]) /\ InFlight(1)
    /\ IsCC(tasks[2]) /\ tasks[2].pc = "done" /\ tasks[2].res = "Ok"

\* C18: raft and net are both None or both Some in every state between two
\* handlers; hence no request that was told the local id as leader ever
\* looks the leader up or forwards: the branch "leader is local but there
\* is no engine" is never taken.
C18_EngineAndDispatcherTogether ==
    /\ raft = 0 <=> net = 0
    /\ \A t \in Tasks :
          (IsCR(tasks[t]) \/ IsCC(tasks[t])) /\ tasks[t].leader = Self =>
              /\ tasks[t].pc \in {"engine", "done", "panic"}
              /\ tasks[t].eng \in 1..Len(engines)
              /\ NEv(tasks[t], "GetNodeById") = 0
              /\ NEv(tasks[t], "SendRemoteMessage") = 0

C18_Witness ==
    /\ raft # 0 /\ net # 0
    /\ \E t \in Tasks :
          /\ IsCR(tasks[t]) /\ tasks[t].leader = Self /\ tasks[t].pc = "engine"
          /\ tasks[t].eng = raft

\* The attempts (futures) of the client request named r.
Attempts(r) == {t \in Tasks : IsCR(tasks[t]) /\ tasks[t].msg.rid = r}

\* The deliveries of request r that wait in the mailbox.
Queued(r) ==
    {i \in 1..Len(mailbox) :
        mailbox[i].type = "ClientRequest" /\ mailbox[i].rid = r}

\* The proposals issued for request r, direct and forwarded.
Proposals(r) ==
    UNION {{<<t, i>> : i \in {j \in 1..Len(tasks[t].trace) :
                                 tasks[t].trace[j].ev \in {"Propose", "SendRemoteMessage"}}}
           : t \in Attempts(r)}

\* The recoverable-error responses received for request r.
RecoverableResponses(r) == {t \in Attempts(r) : tasks[t].res \in Recoverable}

\* The attempts of r not finished: queued, or a future still waiting.
Outstanding(r) ==
    Cardinality(Queued(r))
    + Cardinality({t \in Attempts(r) : tasks[t].pc \notin {"done", "panic"}})

\* C19 as stated: the number of proposals issued for one ClientRequest
\* always equals 1 plus the number of recoverable-error responses received
\* for it.
C19_ProposalsEqualRetriesPlusOne ==
    \A r \in 1..(next_rid - 1) :
        Attempts(r) # {} =>
            Cardinality(Proposals(r)) = 1 + Cardinality(RecoverableResponses(r))

\* C19, amended: a client request never has more than one attempt
\* outstanding; attempt n+1 exists (queued or handled) only after attempt n
\* was answered with a recoverable error, and at most once; and the number
\* of proposals issued for the request equals the number of recoverable
\* responses received for it, plus 1 exactly when an attempt has issued a
\* proposal that has not been answered with a recoverable error.
C19_OneAttemptOutstanding ==
    \A r \in 1..(next_rid - 1) :
        /\ Outstanding(r) <= 1
        /\ \A t \in Attempts(r), u \in Attempts(r) :
              tasks[t].msg.att = tasks[u].msg.att => t = u
        /\ \A t \in Attempts(r), i \in Queued(r) :
              mailbox[i].att # tasks[t].msg.att
        /\ \A t \in Attempts(r) :
              tasks[t].msg.att > 1 =>
                  \E u \in RecoverableResponses(r) :
                      tasks[u].msg.att + 1 = tasks[t].msg.att
        /\ \A i \in Queued(r) :
              mailbox[i].att > 1 =>
                  \E u \in RecoverableResponses(r) :
                      tasks[u].msg.att + 1 = mailbox[i].att
        /\ Cardinality(Proposals(r)) =
              Cardinality(RecoverableResponses(r))
              + (IF \E t \in Attempts(r) :
                        Submitted(tasks[t]) /\ tasks[t].res \notin Recoverable
                 THEN 1 ELSE 0)

C19_Witness ==
    \E r \in 1..(next_rid - 1) :
        /\ Cardinality(Attempts(r)) = 2
        /\ Cardinality(RecoverableResponses(r)) = 1
        /\ Cardinality(Proposals(r)) = 2
        /\ Outstanding(r) = 1

\* ------------------------------------------------------------------ cluster
\* Several cores, one per NodeId of Cores, each running the handlers above
\* with its own id.  ClusterSpec follows a config change from core to core;
\* in it every field of RaftClient, the mailbox and crashed are functions of
\* the core, and a task carries the core it runs on.  Each core is started
\* by an InitRaft with join_mode (no bootstrap future), and the submitted
\* config changes remove only, so that no AddNode is notified: the add-member
\* path and the bootstrap are followed in Spec.
Cores == Known

ClusterConfigChoices == {<< <<>>, <<2>> >>, << <<>>, <<3>> >>}

ClusterInit ==
    /\ raft = [n \in Cores |-> 0]
    /\ net = [n \in Cores |-> 0]
    /\ registry = [n \in Cores |-> {}]
    /\ engines = [n \in Cores |-> <<>>]
    /\ mailbox = [n \in Cores |-> <<>>]
    /\ tasks = <<>>
    /\ crashed = [n \in Cores |-> FALSE]
    /\ next_rid = 1
    /\ ext = 0

\* The bootstrap collaborator sends core n its InitRaft.
ClusterBoot(n) ==
    /\ ~crashed[n] /\ raft[n] = 0
    /\ \A i \in 1..Len(mailbox[n]) : mailbox[n][i].type # "InitRaft"
    /\ mailbox' = [mailbox EXCEPT ![n] = Append(@, InitRaft(<<n>>, n, TRUE))]
    /\ UNCHANGED <<raft, net, registry, engines, tasks, crashed, next_rid, ext>>

\* A collaborator submits a config change to core n.
ClusterSubmit(n, c) ==
    /\ ~crashed[n]
    /\ ext < MaxExt
    /\ ext' = ext + 1
    /\ mailbox' = [mailbox EXCEPT ![n] =
                      Append(@, ChangeRaftClusterConfig(c[1], c[2], next_rid))]
    /\ next_rid' = next_rid + 1
    /\ UNCHANGED <<raft, net, registry, engines, tasks, crashed>>

ClusterHandling(n, type) ==
    ~crashed[n] /\ mailbox[n] # <<>> /\ Head(mailbox[n]).type = type

ClusterRegister(reg, n, k) ==
    LET new == {<<"AppendEntriesRequest", "raft", k>>,
                <<"VoteRequest", "raft", k>>,
                <<"InstallSnapshotRequest", "raft", k>>,
                <<"ChangeRaftClusterConfig", "client", n>>,
                <<"ClientPayload", "raft", k>>}
    IN {r \in reg : \A x \in new : x[1] # r[1]} \cup new

ClusterHandleInitRaft(n) ==
    /\ ClusterHandling(n, "InitRaft")
    /\ LET msg == Head(mailbox[n])
           nodes == IF msg.join THEN <<n>> ELSE msg.nodes
           k == Len(engines[n]) + 1
       IN /\ msg.join
          /\ net' = [net EXCEPT ![n] = msg.net]
          /\ engines' = [engines EXCEPT ![n] = Append(@, RaftBuilder(n, nodes, msg.net))]
          /\ registry' = [registry EXCEPT ![n] = ClusterRegister(@, n, k)]
          /\ raft' = [raft EXCEPT ![n] = k]
          /\ mailbox' = [mailbox EXCEPT ![n] = Tail(@)]
    /\ UNCHANGED <<tasks, crashed, next_rid, ext>>

ClusterTask(n, msg, nh) ==
    [node |-> n, kind |-> "ChangeRaftClusterConfig", msg |-> msg, pc |-> "leader",
     leader |-> 0, eng |-> 0, res |-> "None",
     trace |-> <<Ev("GetCurrentLeader", nh, NoCmd, <<>>, <<>>)>>]

ClusterHandleConfig(n) ==
    /\ ClusterHandling(n, "ChangeRaftClusterConfig")
    /\ LET msg == Head(mailbox[n])
       IN IF net[n] = 0
          THEN /\ crashed' = [crashed EXCEPT ![n] = TRUE]
               /\ UNCHANGED tasks
          ELSE /\ Len(tasks) < MaxTasks
               /\ tasks' = Append(tasks, ClusterTask(n, msg, net[n]))
               /\ UNCHANGED crashed
    /\ mailbox' = [mailbox EXCEPT ![n] = Tail(@)]
    /\ UNCHANGED <<raft, net, registry, engines, next_rid, ext>>

\* if leader == act.id { if let Some(ref raft) = act.raft { .. } }
ClusterIsLocal(n, leader) == leader = n /\ raft[n] # 0

ClusterPanic(t, res) ==
    /\ crashed' = [crashed EXCEPT ![tasks[t].node] = TRUE]
    /\ tasks' = [tasks EXCEPT ![t].pc = "panic", ![t].res = res]

\* The Network of the task's core answers GetCurrentLeader with l.
ClusterConfigLeader(t, l) ==
    LET n == tasks[t].node
    IN /\ ~crashed[n] /\ tasks[t].pc = "leader"
       /\ IF l \notin Nodes
          THEN ClusterPanic(t, "NoLeader")
          ELSE /\ crashed' = crashed
               /\ tasks' = [tasks EXCEPT ![t] =
                     IF ClusterIsLocal(n, l)
                     THEN Emit([@ EXCEPT !.pc = "engine", !.leader = l, !.eng = raft[n]],
                               Ev("ProposeConfigChange", raft[n], NoCmd,
                                  tasks[t].msg.add, tasks[t].msg.rem))
                     ELSE Emit([@ EXCEPT !.pc = "node", !.leader = l],
                               Ev("GetNodeById", l, NoCmd, <<>>, <<>>))]
       /\ UNCHANGED <<raft, net, registry, engines, mailbox, next_rid, ext>>

\* The Network answers GetNodeById(leader) with r.
ClusterConfigNode(t, r) ==
    LET n == tasks[t].node
    IN /\ ~crashed[n] /\ tasks[t].pc = "node"
       /\ IF r = "MailboxError" \/ tasks[t].leader \notin Known
          THEN ClusterPanic(t, IF r = "MailboxError" THEN r ELSE "NotFound")
          ELSE /\ crashed' = crashed
               /\ tasks' = [tasks EXCEPT ![t] =
                     Emit([@ EXCEPT !.pc = "remote"],
                          Ev("SendRemoteMessage", tasks[t].leader, NoCmd,
                             tasks[t].msg.add, tasks[t].msg.rem))]
       /\ UNCHANGED <<raft, net, registry, engines, mailbox, next_rid, ext>>

\* Variant of ClusterConfigEngineReply: an error answer of the engine makes
\* the core notify the config change to itself again, as the client request
\* path does with a recoverable error.
ClusterConfigEngineReply_Retry(t, r) ==
    LET n == tasks[t].node
    IN /\ ~crashed[n] /\ tasks[t].pc = "engine"
       /\ IF r = "MailboxError"
          THEN /\ ClusterPanic(t, r)
               /\ UNCHANGED <<mailbox, engines>>
          ELSE LET out == IF r = "Err" THEN <<tasks[t].msg>> ELSE <<>>
               IN /\ crashed' = crashed
                  /\ mailbox' = [mailbox EXCEPT ![n] = @ \o out]
                  /\ tasks' = [tasks EXCEPT ![t].pc = "done", ![t].res = r]
                  /\ engines' = IF r = "Ok"
                                THEN [engines EXCEPT ![n][tasks[t].eng] =
                                         EngineConfigChange(@, tasks[t].msg.add, tasks[t].msg.rem)]
                                ELSE engines
       /\ UNCHANGED <<raft, net, registry, next_rid, ext>>

\* The engine of the task's core answers the config change with r.
ClusterConfigEngineReply(t, r) ==
    LET n == tasks[t].node
    IN /\ ~crashed[n] /\ tasks[t].pc = "engine"
       /\ IF r = "MailboxError"
          THEN /\ ClusterPanic(t, r)
               /\ UNCHANGED <<mailbox, engines>>
          ELSE LET out == ConfigNotifies(r, tasks[t].msg.add)
               IN /\ crashed' = crashed
                  /\ mailbox' = [mailbox EXCEPT ![n] = @ \o out]
                  /\ tasks' = [tasks EXCEPT ![t] =
                        [@ EXCEPT !.pc = "done", !.res = r,
                                  !.trace = @ \o [i \in 1..Len(out) |->
                                      Ev("Notify:AddNode", out[i].id, NoCmd, <<>>, <<>>)]]]
                  /\ engines' = IF r = "Ok"
                                THEN [engines EXCEPT ![n][tasks[t].eng] =
                                         EngineConfigChange(@, tasks[t].msg.add, tasks[t].msg.rem)]
                                ELSE engines
       /\ UNCHANGED <<raft, net, registry, next_rid, ext>>

\* The network carries the forwarded config change to the core of the
\* believed leader, once: the core's registered handler receives the very
\* message that was forwarded.
ClusterDeliver(t) ==
    LET l == tasks[t].leader
    IN /\ tasks[t].pc = "remote"
       /\ l \in Cores /\ ~crashed[l]
       /\ <<"ChangeRaftClusterConfig", "client", l>> \in registry[l]
       /\ mailbox' = [mailbox EXCEPT ![l] = Append(@, tasks[t].msg)]
       /\ tasks' = [tasks EXCEPT ![t] =
             Emit([@ EXCEPT !.pc = "sent"], Ev("Delivered", l, NoCmd, <<>>, <<>>))]
       /\ UNCHANGED <<raft, net, registry, engines, crashed, next_rid, ext>>

\* The forward is answered, or its delivery fails; either way nothing
\* follows at the forwarding core.
ClusterConfigRemoteReply(t, r) ==
    /\ ~crashed[tasks[t].node]
    /\ \/ tasks[t].pc = "sent"
       \/ tasks[t].pc = "remote" /\ r = "MailboxError"
    /\ tasks' = [tasks EXCEPT ![t].pc = "done", ![t].res = r]
    /\ UNCHANGED <<raft, net, registry, engines, mailbox, crashed, next_rid, ext>>

ClusterNext ==
    \/ \E n \in Cores : ClusterBoot(n)
    \/ \E n \in Cores, c \in ClusterConfigChoices : ClusterSubmit(n, c)
    \/ \E n \in Cores : ClusterHandleInitRaft(n)
    \/ \E n \in Cores : ClusterHandleConfig(n)
    \/ \E t \in 1..Len(tasks), l \in LeaderReplies : ClusterConfigLeader(t, l)
    \/ \E t \in 1..Len(tasks), r \in NodeReplies : ClusterConfigNode(t, r)
    \/ \E t \in 1..Len(tasks), r \in AdminReplies : ClusterConfigEngineReply(t, r)
    \/ \E t \in 1..Len(tasks) : ClusterDeliver(t)
    \/ \E t \in 1..Len(tasks), r \in ForwardReplies : ClusterConfigRemoteReply(t, r)

ClusterSpec == ClusterInit /\ [][ClusterNext]_vars

\* The handlings, on any core, of the config change submitted as r.
Handlings(r) == {t \in Tasks : tasks[t].msg.rid = r}

\* The copies of config change r that wait in a mailbox.
ClusterQueued(r) ==
    UNION {{<<n, i>> : i \in {j \in 1..Len(mailbox[n]) : mailbox[n][j].rid = r}}
           : n \in Cores}

\* What handling k has handed on: proposals and forwards.
Issued(k) == NEv(k, "ProposeConfigChange") + NEv(k, "SendRemoteMessage")

\* C20: each handling of a ChangeRaftClusterConfig, on whichever core,
\* issues at most one of a proposal to its own engine and a forward to the
\* leader it was told, never both, and exactly one once it has completed
\* (a handling that panics on an unknown or unresolvable leader issues
\* neither); a forward is delivered at most once, each delivered forward is
\* handled once by the receiving core, and so of all the handlings of one
\* submitted config change across the cluster at most one proposes it to
\* an engine, once.
C20_ConfigProposedAtMostOnce ==
    /\ \A t \in Tasks :
          /\ Issued(tasks[t]) <= 1
          /\ tasks[t].pc \in {"engine", "remote", "sent", "done"} =>
                Issued(tasks[t]) = 1
          /\ tasks[t].pc \in {"leader", "node"} => Issued(tasks[t]) = 0
          /\ NEv(tasks[t], "ProposeConfigChange") = 1 =>
                /\ tasks[t].leader = tasks[t].node
                /\ NEv(tasks[t], "GetNodeById") = 0
          /\ NEv(tasks[t], "SendRemoteMessage") = 1 =>
                /\ tasks[t].leader \in Cores \ {tasks[t].node}
                /\ tasks[t].trace[Len(tasks[t].trace)].to = tasks[t].leader
          /\ NEv(tasks[t], "Delivered") <= NEv(tasks[t], "SendRemoteMessage")
    /\ \A r \in 1..(next_rid - 1) :
          /\ Cardinality({t \in Handlings(r) :
                             NEv(tasks[t], "ProposeConfigChange") > 0}) <= 1
          /\ Cardinality(Handlings(r)) + Cardinality(ClusterQueued(r))
                <= 1 + Cardinality({t \in Handlings(r) : NEv(tasks[t], "Delivered") > 0})
          /\ \A t \in Handlings(r) :
                NEv(tasks[t], "ProposeConfigChange") > 0 =>
                    /\ ClusterQueued(r) = {}
                    /\ \A u \in Handlings(r) \ {t} : NEv(tasks[u], "Delivered") = 1

C20_Witness ==
    \E t \in Tasks, u \in Tasks :
        /\ tasks[t].msg.rid = tasks[u].msg.rid
        /\ tasks[t].node = 1 /\ tasks[t].leader = 2
        /\ tasks[t].pc = "done" /\ tasks[t].res = "Ok"
        /\ tasks[u].node = 2 /\ tasks[u].leader = 2
        /\ tasks[u].pc = "done" /\ tasks[u].res = "Ok"
        /\ engines[2][tasks[u].eng].members = {}

====
